---- MODULE Spec2Model ----
(***************************************************************************)
(* Model of opentelemetry-instrumentation-sqlite (lib/index.js).           *)
(*                                                                         *)
(* The instrumentation replaces DatabaseSync.prototype.exec / prepare and  *)
(* StatementSync.prototype.all / get / run by wrappers that start a span,  *)
(* run the original through genericWrap and end the span.  The model keeps *)
(* the prototype slots, the enabled flag of the instrumentation, the       *)
(* current tracer, the stack of calls whose original is still running and  *)
(* the observation made by the caller of the call that completed last.     *)
(***************************************************************************)
EXTENDS Naturals, Sequences, FiniteSets, TLC

VARIABLES
    enabled,    \* the instrumentation's enabled flag
    loaded,     \* node:sqlite has been loaded (its exports are known)
    tracer,     \* instr.tracer, the tracer span creation reads
    proto,      \* method name -> implementation installed on the prototype
    stack,      \* calls in progress, outermost first; the last one is running
    last,       \* the last operation: what the caller of a completed call saw
    installTracer,  \* instr.tracer when the patch callback installed the wrappers
    openSpans   \* spans started and not yet ended

vars == <<enabled, loaded, tracer, proto, stack, last, installTracer, openSpans>>

----------------------------------------------------------------------------
(* Bounds and value domains *)

\* Deepest nesting of calls: an original may itself call a method.
MaxDepth == 2

\* JavaScript's undefined.
Undefined == "<undefined>"

\* Tracers a tracer provider can hand out.
Tracers == {"tracerA", "tracerB"}

\* SQL texts passed to exec / prepare and held by statements as sourceSQL.
SQL == {"CREATE TABLE test", "INSERT INTO test"}

\* Bind parameters passed to all / get / run.
Bind == {"{}"}

\* Values an original can return, undefined among them.
ReturnValues ==
    { [id |-> "undefined", message |-> Undefined],
      [id |-> "rows", message |-> Undefined] }

\* Values an original can throw: an Error with a message, an object that has
\* no message property, and null.
ThrownValues ==
    { [id |-> "SqliteError", message |-> "syntax error"],
      [id |-> "NoMessage", message |-> Undefined],
      [id |-> "null", message |-> Undefined] }

\* Errors raised by the tracing collaborator when one of its operations fails.
StartSpanError == [id |-> "StartSpanError", message |-> "startSpan failed"]
SetStatusError == [id |-> "SetStatusError", message |-> "setStatus failed"]
EndError == [id |-> "EndError", message |-> "end failed"]

Return(v) == [kind |-> "return", val |-> v]
Throw(e) == [kind |-> "throw", val |-> e]

\* How the original of a call can finish.
Outcomes == {Return(v) : v \in ReturnValues} \cup {Throw(e) : e \in ThrownValues}

\* Which operation of the span of a finishing call fails, if any.
Faults == {"none", "setStatus", "end"}

----------------------------------------------------------------------------
(* Constants of lib/index.js *)

STMT_METHODS == <<"all", "get", "run">>

DB_METHODS == <<"exec", "prepare">>

Range(s) == {s[i] : i \in DOMAIN s}

Methods == Range(DB_METHODS) \cup Range(STMT_METHODS)

SpanKind_CLIENT == "CLIENT"
SpanStatusCode_OK == "OK"
SpanStatusCode_ERROR == "ERROR"
SpanStatusCode_UNSET == "UNSET"
ATTR_DB_SYSTEM == "db.system"
ATTR_DB_QUERY_TEXT == "db.query.text"
DB_SYSTEM_VALUE_SQLITE == "sqlite"

----------------------------------------------------------------------------
(* Receivers and call inputs *)

DatabaseSync == [type |-> "DatabaseSync", sourceSQL |-> Undefined]
StatementSync(sql) == [type |-> "StatementSync", sourceSQL |-> sql]

\* The calls a client can make: exec(sql) and prepare(sql) on a connection,
\* all(bind), get(bind) and run(bind) on a statement.
CallInputs ==
    { [m |-> m, self |-> DatabaseSync, params |-> <<s>>] :
          m \in Range(DB_METHODS), s \in SQL }
    \cup
    { [m |-> x[1], self |-> StatementSync(x[2]), params |-> <<x[3]>>] :
          x \in Range(STMT_METHODS) \X SQL \X Bind }

\* params[0] of JavaScript: undefined when the call has no argument.
Param0(params) == IF Len(params) >= 1 THEN params[1] ELSE Undefined

----------------------------------------------------------------------------
(* Implementations: a native original under a stack of wrappers *)

\* An implementation is the native method `orig` under the wrappers in
\* `layers` (outermost first); a wrapper is named by its function.
Native(m) == [orig |-> m, layers |-> <<>>]

\* Function.prototype.name of an implementation.
FnName(fn) == IF fn.layers = <<>> THEN fn.orig ELSE Head(fn.layers)

\* The `original` a wrapper closes over: the implementation it replaced.
Original(fn) == [orig |-> fn.orig, layers |-> Tail(fn.layers)]

WrapDepth(fn) == Len(fn.layers)

\* original.apply(self, params): the invocation handed on.
Apply(original, self, params) == [fn |-> original, this |-> self, args |-> params]

----------------------------------------------------------------------------
(* The tracing collaborator: tracer.startSpan, span.setStatus, span.end *)

startSpan(tr, name, options) ==
    [ name |-> name,
      kind |-> options.kind,
      attributes |-> options.attributes,
      tracer |-> tr,
      status |-> [code |-> SpanStatusCode_UNSET],
      statusCalls |-> 0,
      statusSet |-> 0,
      ended |-> 0,
      log |-> <<"startSpan">> ]     \* the operations on the span, in order

\* span.setStatus(status); `throws` is the collaborator failing in the call.
setStatus(span, status, throws) ==
    IF throws
    THEN [span EXCEPT !.statusCalls = @ + 1, !.log = Append(@, "setStatus")]
    ELSE [span EXCEPT !.status = status, !.statusCalls = @ + 1, !.statusSet = @ + 1,
                      !.log = Append(@, "setStatus")]

\* span.end()
end(span) == [span EXCEPT !.ended = @ + 1, !.log = Append(@, "end")]

Attr(span, key) ==
    IF key \in DOMAIN span.attributes THEN span.attributes[key] ELSE Undefined

HasAttr(span, key) == key \in DOMAIN span.attributes

----------------------------------------------------------------------------
(* genericWrap (lib/index.js 84-99) *)

\* Mutant: the status message is taken from the error's name.
OptMessage_Name(err) == err.id

\* err?.message
OptMessage(err) == IF err.id = "null" THEN Undefined ELSE err.message

\* genericWrap is modelled from the point where original.apply(self, params)
\* has finished with `applied`.  `fault` names the span operation that throws,
\* if any.  Each block gives the span afterwards and the completion it leaves.

\* Mutant: the try block forgets `return result`.
tryBlock_DropsResult(applied, span, fault) ==
    IF applied.kind = "return"
    THEN IF fault = "setStatus"
         THEN [span |-> setStatus(span, [code |-> SpanStatusCode_OK], TRUE),
               out |-> Throw(SetStatusError), caught |-> TRUE]
         ELSE [span |-> setStatus(span, [code |-> SpanStatusCode_OK], FALSE),
               out |-> Return([id |-> "undefined", message |-> Undefined]),
               caught |-> FALSE]
    ELSE [span |-> span, out |-> applied, caught |-> TRUE]

\* try { const result = original.apply(...); span.setStatus({code: OK});
\*       return result; }
tryBlock(applied, span, fault) ==
    IF applied.kind = "return"
    THEN IF fault = "setStatus"
         THEN [span |-> setStatus(span, [code |-> SpanStatusCode_OK], TRUE),
               out |-> Throw(SetStatusError), caught |-> TRUE]
         ELSE [span |-> setStatus(span, [code |-> SpanStatusCode_OK], FALSE),
               out |-> applied, caught |-> FALSE]
    ELSE [span |-> span, out |-> applied, caught |-> TRUE]

\* Mutant: the catch block rethrows without setting the status.
catchBlock_LeavesUnset(t, fault) ==
    IF t.caught
    THEN [span |-> t.span, out |-> Throw(t.out.val)]
    ELSE [span |-> t.span, out |-> t.out]

\* Mutant: the catch block reads err.message without optional chaining, which
\* raises a TypeError of its own when the thrown value is null.
catchBlock_PlainMemberAccess(t, fault) ==
    IF t.caught
    THEN LET err == t.out.val
             status == [code |-> SpanStatusCode_ERROR, message |-> err.message]
         IN  IF err.id = "null"
             THEN [span |-> t.span,
                   out |-> Throw([id |-> "TypeError",
                                  message |-> "Cannot read properties of null"])]
             ELSE IF fault = "setStatus"
             THEN [span |-> setStatus(t.span, status, TRUE),
                   out |-> Throw(SetStatusError)]
             ELSE [span |-> setStatus(t.span, status, FALSE),
                   out |-> Throw(err)]
    ELSE [span |-> t.span, out |-> t.out]

\* Mutant: the catch block throws a new Error carrying the message.
catchBlock_Rewraps(t, fault) ==
    IF t.caught
    THEN LET err == t.out.val
             status == [code |-> SpanStatusCode_ERROR, message |-> OptMessage(err)]
         IN  IF fault = "setStatus"
             THEN [span |-> setStatus(t.span, status, TRUE),
                   out |-> Throw(SetStatusError)]
             ELSE [span |-> setStatus(t.span, status, FALSE),
                   out |-> Throw([id |-> "Error", message |-> OptMessage(err)])]
    ELSE [span |-> t.span, out |-> t.out]

\* catch (err) { span.setStatus({code: ERROR, message: err?.message});
\*               throw err; }
catchBlock(t, fault) ==
    IF t.caught
    THEN LET err == t.out.val
             status == [code |-> SpanStatusCode_ERROR, message |-> OptMessage(err)]
         IN  IF fault = "setStatus"
             THEN [span |-> setStatus(t.span, status, TRUE),
                   out |-> Throw(SetStatusError)]
             ELSE [span |-> setStatus(t.span, status, FALSE),
                   out |-> Throw(err)]
    ELSE [span |-> t.span, out |-> t.out]

\* Mutant: the span is ended only while the instrumentation is enabled.
finallyBlock_SkipsWhenDisabled(c, fault) ==
    IF enabled
    THEN [span |-> end(c.span),
          out |-> IF fault = "end" THEN Throw(EndError) ELSE c.out]
    ELSE [span |-> c.span, out |-> c.out]

\* Mutant: span.end() sits at the end of the try block, not in a finally.
finallyBlock_EndOnSuccessOnly(c, fault) ==
    IF c.out.kind = "return"
    THEN [span |-> end(c.span),
          out |-> IF fault = "end" THEN Throw(EndError) ELSE c.out]
    ELSE [span |-> c.span, out |-> c.out]

\* finally { span.end(); }
finallyBlock(c, fault) ==
    [span |-> end(c.span),
     out |-> IF fault = "end" THEN Throw(EndError) ELSE c.out]

\* Mutant: the span is ended as soon as the original has finished, before its
\* status is set.
genericWrap_EndBeforeStatus(applied, span, fault) ==
    LET c == catchBlock(tryBlock(applied, end(span), fault), fault)
    IN  [span |-> c.span,
         out |-> IF fault = "end" THEN Throw(EndError) ELSE c.out]

genericWrap(applied, span, fault) ==
    finallyBlock(catchBlock(tryBlock(applied, span, fault), fault), fault)

----------------------------------------------------------------------------
(* The wrappers installed by the patch callback (lib/index.js 31-67) *)

\* Mutant: the exec wrapper uses the tracer the patch callback found.
exec_TracerAtInstall(original, self, params, tr) ==
    [ span |-> startSpan(installTracer, FnName(original),
                  [kind |-> SpanKind_CLIENT,
                   attributes |-> (ATTR_DB_SYSTEM :> DB_SYSTEM_VALUE_SQLITE)]),
      apply |-> Apply(original, self, params) ]

\* Mutant: the exec wrapper starts its span without a kind.
exec_DefaultKind(original, self, params, tr) ==
    [ span |-> startSpan(tr, FnName(original),
                  [kind |-> "INTERNAL",
                   attributes |-> (ATTR_DB_SYSTEM :> DB_SYSTEM_VALUE_SQLITE)]),
      apply |-> Apply(original, self, params) ]

\* Mutant: the exec wrapper records its first argument as query text.
exec_WithQueryText(original, self, params, tr) ==
    [ span |-> startSpan(tr, FnName(original),
                  [kind |-> SpanKind_CLIENT,
                   attributes |-> (ATTR_DB_SYSTEM :> DB_SYSTEM_VALUE_SQLITE)
                                  @@ (ATTR_DB_QUERY_TEXT :> Param0(params))]),
      apply |-> Apply(original, self, params) ]

\* Mutant: the statement wrappers share one original, that of all().
statementExecution_SharedOriginal(original, self, params, tr) ==
    [ span |-> startSpan(tr, FnName(original),
                  [kind |-> SpanKind_CLIENT,
                   attributes |-> (ATTR_DB_SYSTEM :> DB_SYSTEM_VALUE_SQLITE)
                                  @@ (ATTR_DB_QUERY_TEXT :> self.sourceSQL)]),
      apply |-> Apply(Native("all"), self, params) ]

\* Mutant: the statement wrapper takes the query text from its first argument.
statementExecution_FirstParam(original, self, params, tr) ==
    [ span |-> startSpan(tr, FnName(original),
                  [kind |-> SpanKind_CLIENT,
                   attributes |-> (ATTR_DB_SYSTEM :> DB_SYSTEM_VALUE_SQLITE)
                                  @@ (ATTR_DB_QUERY_TEXT :> Param0(params))]),
      apply |-> Apply(original, self, params) ]

\* Each gives the span it starts and the invocation it hands to genericWrap.
exec(original, self, params, tr) ==
    [ span |-> startSpan(tr, FnName(original),
                  [kind |-> SpanKind_CLIENT,
                   attributes |-> (ATTR_DB_SYSTEM :> DB_SYSTEM_VALUE_SQLITE)]),
      apply |-> Apply(original, self, params) ]

prepare(original, self, params, tr) ==
    [ span |-> startSpan(tr, FnName(original),
                  [kind |-> SpanKind_CLIENT,
                   attributes |-> (ATTR_DB_SYSTEM :> DB_SYSTEM_VALUE_SQLITE)
                                  @@ (ATTR_DB_QUERY_TEXT :> Param0(params))]),
      apply |-> Apply(original, self, params) ]

statementExecution(original, self, params, tr) ==
    [ span |-> startSpan(tr, FnName(original),
                  [kind |-> SpanKind_CLIENT,
                   attributes |-> (ATTR_DB_SYSTEM :> DB_SYSTEM_VALUE_SQLITE)
                                  @@ (ATTR_DB_QUERY_TEXT :> self.sourceSQL)]),
      apply |-> Apply(original, self, params) ]

Wrapper(w, original, self, params, tr) ==
    CASE w = "exec" -> exec(original, self, params, tr)
      [] w = "prepare" -> prepare(original, self, params, tr)
      [] OTHER -> statementExecution(original, self, params, tr)

\* Calling implementation fn with receiver self and arguments params: every
\* wrapper layer starts its span and applies its original, down to the native
\* method.  Gives the spans started (outermost first) and the invocation of
\* the native method.
RECURSIVE Invoke(_, _, _, _)
Invoke(fn, self, params, tr) ==
    IF fn.layers = <<>>
    THEN [spans |-> <<>>, applied |-> Apply(fn, self, params)]
    ELSE LET w == Wrapper(Head(fn.layers), Original(fn), self, params, tr)
             inner == Invoke(w.apply.fn, w.apply.this, w.apply.args, tr)
         IN  [spans |-> <<w.span>> \o inner.spans, applied |-> inner.applied]

\* The native method has finished with `applied`: every layer's genericWrap
\* completes, innermost first.  Gives the spans afterwards and what the caller
\* of the outermost layer sees.
RECURSIVE Unwind(_, _, _)
Unwind(spans, applied, fault) ==
    IF spans = <<>>
    THEN [spans |-> <<>>, out |-> applied]
    ELSE LET n == Len(spans)
             g == genericWrap(applied, spans[n], fault)
             outer == Unwind(SubSeq(spans, 1, n - 1), g.out, fault)
         IN  [spans |-> outer.spans \o <<g.span>>, out |-> outer.out]

----------------------------------------------------------------------------
(* The method interceptor of the instrumentation base class *)

\* _wrap(target, name, factory): target[name] = factory(target[name]).
_wrap(p, name, factory) ==
    [p EXCEPT ![name] = [orig |-> @.orig, layers |-> <<factory>> \o @.layers]]

RECURSIVE _massWrap(_, _, _)
_massWrap(p, names, factory) ==
    IF names = <<>> THEN p
    ELSE _massWrap(_wrap(p, Head(names), factory), Tail(names), factory)

\* _unwrap(target, name): restores the remembered original; a no-op when the
\* method is not wrapped.
_unwrap(p, name) ==
    IF p[name].layers = <<>> THEN p
    ELSE [p EXCEPT ![name] = Original(@)]

RECURSIVE _massUnwrap(_, _)
_massUnwrap(p, names) ==
    IF names = <<>> THEN p
    ELSE _massUnwrap(_unwrap(p, Head(names)), Tail(names))

----------------------------------------------------------------------------
(* The patch and unpatch callbacks of init() (lib/index.js 27-77) *)

\* Mutant: the unpatch callback leaves the statement methods wrapped.
unpatch_KeepsStatements(p) == _unwrap(_unwrap(p, "exec"), "prepare")

\* Mutant: the unpatch callback leaves prepare wrapped.
unpatch_KeepsPrepare(p) == _massUnwrap(_unwrap(p, "exec"), STMT_METHODS)

patch(p) ==
    _massWrap(
        _wrap(_wrap(p, "exec", "exec"), "prepare", "prepare"),
        STMT_METHODS, "statementExecution")

unpatch(p) ==
    _massUnwrap(_unwrap(_unwrap(p, "exec"), "prepare"), STMT_METHODS)

----------------------------------------------------------------------------
(* State *)

\* `last` after an operation that is not the completion of a call.
Op(name) == [done |-> FALSE, op |-> name]

\* `last` after enable() or disable(): the flag and the prototype slots the
\* operation found.
Toggled(name) ==
    [done |-> FALSE, op |-> name, wasEnabled |-> enabled, protoBefore |-> proto]

\* The instrumentation has been constructed (enabled or not, as its config
\* says) and node:sqlite has not been loaded yet.
Init ==
    /\ enabled \in BOOLEAN
    /\ loaded = FALSE
    /\ tracer = "tracerA"
    /\ proto = [m \in Methods |-> Native(m)]
    /\ stack = <<>>
    /\ last = Op("init")
    /\ installTracer = "none"
    /\ openSpans = 0

----------------------------------------------------------------------------
(* Control surface of the instrumentation base class *)

\* node:sqlite is loaded for the first time: patched when enabled.
Load ==
    /\ ~loaded
    /\ loaded' = TRUE
    /\ proto' = IF enabled THEN patch(proto) ELSE proto
    /\ last' = Op("load")
    /\ installTracer' = IF enabled THEN tracer ELSE installTracer
    /\ UNCHANGED <<enabled, tracer, stack, openSpans>>

\* Mutant: a repeated load runs the patch callback again.
reload_Repatches ==
    proto' = IF enabled THEN patch(proto) ELSE proto

\* node:sqlite is loaded again: the module-load hook does not patch again.
reload ==
    proto' = proto

Reload ==
    /\ loaded
    /\ reload
    /\ last' = Op("reload")
    /\ UNCHANGED <<enabled, loaded, tracer, stack, installTracer, openSpans>>

\* Mutant: enable() patches a loaded module even when already enabled.
enable_Unguarded ==
    /\ enabled' = TRUE
    /\ proto' = IF loaded THEN patch(proto) ELSE proto

\* enable(): nothing when already enabled; else patches a loaded module.
enable ==
    /\ enabled' = TRUE
    /\ proto' = IF ~enabled /\ loaded THEN patch(proto) ELSE proto

\* disable(): nothing when already disabled; else unpatches a loaded module.
disable ==
    /\ enabled' = FALSE
    /\ proto' = IF enabled /\ loaded THEN unpatch(proto) ELSE proto

Enable ==
    /\ enable
    /\ last' = Toggled("enable")
    /\ installTracer' = IF proto' # proto THEN tracer ELSE installTracer
    /\ UNCHANGED <<loaded, tracer, stack, openSpans>>

Disable ==
    /\ disable
    /\ last' = Toggled("disable")
    /\ installTracer' = IF proto' # proto THEN "none" ELSE installTracer
    /\ UNCHANGED <<loaded, tracer, stack, openSpans>>

\* setTracerProvider(provider): instr.tracer becomes the provider's tracer.
SetTracerProvider ==
    /\ stack = <<>>
    /\ \E t \in Tracers : tracer' = t
    /\ last' = Op("setTracerProvider")
    /\ UNCHANGED <<enabled, loaded, proto, stack, installTracer, openSpans>>

----------------------------------------------------------------------------
(* Calls *)

\* The number of spans of `spans` that have been ended.
Ended(spans) == Cardinality({i \in DOMAIN spans : spans[i].ended > 0})

\* The record of a call in progress.
Frame(in, fn, inv) ==
    [ m |-> in.m, self |-> in.self, params |-> in.params,
      fn |-> fn,                    \* the implementation found on the prototype
      enabledAtCall |-> enabled,
      tracerAtCall |-> tracer,
      spans |-> inv.spans,          \* spans started by the wrapper layers
      applied |-> inv.applied ]     \* the invocation of the native method

\* What the caller sees when the call of frame f completes.
Completed(f, origOutcome, unwound, fault, depth) ==
    [ done |-> TRUE, op |-> "return",
      m |-> f.m, self |-> f.self, params |-> f.params, fn |-> f.fn,
      enabledAtCall |-> f.enabledAtCall,
      tracerAtCall |-> f.tracerAtCall,
      applied |-> f.applied,
      origCalled |-> TRUE,
      orig |-> origOutcome,         \* how the native method finished
      obs |-> unwound.out,          \* what the caller observes
      spans |-> unwound.spans,
      fault |-> fault,
      depth |-> depth ]

\* A call whose outermost wrapper failed to start its span: the error leaves
\* the wrapper before genericWrap is reached.
StartFailed(in, fn) ==
    [ done |-> TRUE, op |-> "return",
      m |-> in.m, self |-> in.self, params |-> in.params, fn |-> fn,
      enabledAtCall |-> enabled,
      tracerAtCall |-> tracer,
      applied |-> Apply(fn, in.self, in.params),
      origCalled |-> FALSE,
      orig |-> Throw(StartSpanError),
      obs |-> Throw(StartSpanError),
      spans |-> <<>>,
      fault |-> "startSpan",
      depth |-> Len(stack) + 1 ]

\* Mutant: a wrapper restores the method it wraps when it is called.
Call_Unwraps ==
    /\ loaded
    /\ Len(stack) < MaxDepth
    /\ \E in \in CallInputs :
          LET fn == proto[in.m]
          IN  /\ stack' = Append(stack, Frame(in, fn, Invoke(fn, in.self, in.params, tracer)))
              /\ last' = Op("call")
              /\ openSpans' = openSpans + Len(stack'[Len(stack')].spans)
              /\ proto' = [proto EXCEPT ![in.m] = Native(in.m)]
    /\ UNCHANGED <<enabled, loaded, tracer, installTracer>>

\* A client (or a running original) calls method in.m: the implementation on
\* the prototype runs up to the point where the native method executes.
Call ==
    /\ loaded
    /\ Len(stack) < MaxDepth
    /\ \E in \in CallInputs :
          LET fn == proto[in.m]
          IN  /\ stack' = Append(stack, Frame(in, fn, Invoke(fn, in.self, in.params, tracer)))
              /\ last' = Op("call")
              /\ openSpans' = openSpans + Len(stack'[Len(stack')].spans)
    /\ UNCHANGED <<enabled, loaded, tracer, proto, installTracer>>

\* A call of a wrapped method whose tracer.startSpan throws.
CallStartSpanThrows ==
    /\ loaded
    /\ Len(stack) < MaxDepth
    /\ \E in \in CallInputs :
          LET fn == proto[in.m]
          IN  /\ fn.layers # <<>>
              /\ last' = StartFailed(in, fn)
    /\ UNCHANGED <<enabled, loaded, tracer, proto, stack, installTracer, openSpans>>

\* Mutant: the finishing call completes the spans of the calls that enclose it
\* too, as if the span were shared state and not a local of the call.
Finish_StatusOnEnclosing ==
    /\ stack # <<>>
    /\ LET f == stack[Len(stack)]
       IN  \E o \in Outcomes :
           \E fault \in (IF f.spans = <<>> THEN {"none"} ELSE Faults) :
              /\ last' = Completed(f, o, Unwind(f.spans, o, fault), fault, Len(stack))
              /\ stack' = [d \in 1 .. (Len(stack) - 1) |->
                              [stack[d] EXCEPT !.spans =
                                  [i \in DOMAIN stack[d].spans |->
                                      Unwind(<<stack[d].spans[i]>>, o, "end").spans[1]]]]
              /\ openSpans' = openSpans - Ended(last'.spans)
    /\ UNCHANGED <<enabled, loaded, tracer, proto, installTracer>>

\* The native method of the innermost call finishes; the wrapper layers
\* complete and control returns to the caller.
Finish ==
    /\ stack # <<>>
    /\ LET f == stack[Len(stack)]
       IN  \E o \in Outcomes :
           \E fault \in (IF f.spans = <<>> THEN {"none"} ELSE Faults) :
              /\ last' = Completed(f, o, Unwind(f.spans, o, fault), fault, Len(stack))
              /\ stack' = SubSeq(stack, 1, Len(stack) - 1)
              /\ openSpans' = openSpans - Ended(last'.spans)
    /\ UNCHANGED <<enabled, loaded, tracer, proto, installTracer>>

Next ==
    \/ Load
    \/ Reload
    \/ Enable
    \/ Disable
    \/ SetTracerProvider
    \/ Call
    \/ CallStartSpanThrows
    \/ Finish

Spec == Init /\ [][Next]_vars

----------------------------------------------------------------------------
(* Properties *)

\* The completed call went through at least one wrapper.
LastWrapped == last.done /\ WrapDepth(last.fn) > 0

\* The native method of the completed call ran and no span operation threw.
LastClean == last.done /\ last.origCalled /\ last.fault = "none"

AllSpans(c, P(_)) == \A i \in DOMAIN c.spans : P(c.spans[i])

\* C1: when the original returns normally (and the span operations do not
\* throw), the caller of the wrapped method receives exactly the value the
\* original returned, undefined included: the value an unwrapped call gives.
C1_ReturnValueUnchanged ==
    (LastWrapped /\ LastClean /\ last.orig.kind = "return")
        => last.obs = last.orig

C1_Witness ==
    /\ LastWrapped /\ LastClean
    /\ last.m = "exec"
    /\ last.orig = Return([id |-> "undefined", message |-> Undefined])
    /\ last.obs = last.orig

\* C2: when the original throws (and the span operations do not throw), the
\* caller observes the very value the original threw, and by then every
\* span of the call has had its status set to ERROR.
C2_ErrorRethrownUnchanged ==
    (LastWrapped /\ LastClean /\ last.orig.kind = "throw")
        => /\ last.obs = last.orig
           /\ AllSpans(last, LAMBDA s : s.statusSet = 1
                                        /\ s.status.code = SpanStatusCode_ERROR)

C2_Witness ==
    /\ LastWrapped /\ LastClean
    /\ last.m = "exec"
    /\ last.orig = Throw([id |-> "SqliteError", message |-> "syntax error"])
    /\ last.obs = last.orig
    /\ last.spans[1].status.code = SpanStatusCode_ERROR

\* C3: every span started by a wrapped call has been ended exactly once when
\* the call has exited, whether the original returned, threw, or a span
\* operation failed on the way out; while the original still runs the span
\* has not been ended.
C3_SpanEndedExactlyOnce ==
    /\ last.done => AllSpans(last, LAMBDA s : s.ended = 1)
    /\ \A d \in DOMAIN stack : AllSpans(stack[d], LAMBDA s : s.ended = 0)

C3_Witness ==
    /\ LastWrapped
    /\ last.fault = "setStatus"
    /\ last.orig.kind = "return"
    /\ Len(last.spans) = 1
    /\ last.spans[1].ended = 1

\* C4: a call made while the instrumentation is enabled that succeeds records
\* exactly one span: ended, status OK, kind CLIENT, named after the method
\* called, with the database-system attribute set to sqlite.
C4_SuccessSpan ==
    (last.done /\ last.enabledAtCall /\ last.obs.kind = "return")
        => /\ Len(last.spans) = 1
           /\ last.spans[1].ended = 1
           /\ last.spans[1].status = [code |-> SpanStatusCode_OK]
           /\ last.spans[1].kind = SpanKind_CLIENT
           /\ last.spans[1].name = last.m
           /\ Attr(last.spans[1], ATTR_DB_SYSTEM) = DB_SYSTEM_VALUE_SQLITE

C4_Witness ==
    /\ last.done /\ last.enabledAtCall /\ last.obs.kind = "return"
    /\ last.m = "run"
    /\ Len(last.spans) = 1
    /\ last.spans[1].name = "run"
    /\ last.spans[1].status = [code |-> SpanStatusCode_OK]

\* C5: a call made while the instrumentation is enabled whose original throws
\* (the span operations not throwing) records exactly one span, ended, with
\* status ERROR and the thrown value's message property as message.
C5_ErrorSpan ==
    (LastClean /\ last.enabledAtCall /\ last.orig.kind = "throw")
        => /\ Len(last.spans) = 1
           /\ last.spans[1].ended = 1
           /\ last.spans[1].status =
                  [code |-> SpanStatusCode_ERROR, message |-> last.orig.val.message]

C5_Witness ==
    /\ LastClean /\ last.enabledAtCall
    /\ last.m = "prepare"
    /\ last.orig = Throw([id |-> "SqliteError", message |-> "syntax error"])
    /\ Len(last.spans) = 1
    /\ last.spans[1].status =
           [code |-> SpanStatusCode_ERROR, message |-> "syntax error"]

\* C6: a call made while the instrumentation is disabled starts and records
\* no span, whether it succeeds or throws.
C6_DisabledNoSpans ==
    /\ (last.done /\ ~last.enabledAtCall) => last.spans = <<>>
    /\ \A d \in DOMAIN stack : ~stack[d].enabledAtCall => stack[d].spans = <<>>

\* A call made after enable() then disable(): the outer call was made while
\* enabled, the nested one after a disable() and it threw.
C6_Witness ==
    /\ Len(stack) = 1
    /\ stack[1].enabledAtCall
    /\ stack[1].spans # <<>>
    /\ last.done /\ ~last.enabledAtCall
    /\ last.orig.kind = "throw"
    /\ last.spans = <<>>

\* C7: every span of an all / get / run call, on success and on failure,
\* carries as query text the sourceSQL of the receiver statement, whatever
\* the arguments of the call.
C7_StatementQueryText ==
    (LastWrapped /\ last.m \in Range(STMT_METHODS))
        => AllSpans(last, LAMBDA s :
               /\ HasAttr(s, ATTR_DB_QUERY_TEXT)
               /\ Attr(s, ATTR_DB_QUERY_TEXT) = last.self.sourceSQL)

C7_Witness ==
    /\ LastWrapped /\ last.origCalled
    /\ last.m = "all"
    /\ last.orig.kind = "throw"
    /\ last.self = StatementSync("INSERT INTO test")
    /\ last.params = <<"{}">>
    /\ Attr(last.spans[1], ATTR_DB_QUERY_TEXT) = "INSERT INTO test"

\* C8: every span of a prepare call carries the first argument of the call as
\* query text, on success and on failure, and no span of an exec call has a
\* query-text attribute.
C8_ConnectionQueryText ==
    LastWrapped
        => AllSpans(last, LAMBDA s :
               /\ last.m = "prepare" =>
                      /\ HasAttr(s, ATTR_DB_QUERY_TEXT)
                      /\ Attr(s, ATTR_DB_QUERY_TEXT) = Param0(last.params)
               /\ last.m = "exec" => ~HasAttr(s, ATTR_DB_QUERY_TEXT))

C8_Witness ==
    /\ LastWrapped /\ last.origCalled
    /\ last.m = "exec"
    /\ last.orig.kind = "throw"
    /\ Len(last.spans) = 1
    /\ ~HasAttr(last.spans[1], ATTR_DB_QUERY_TEXT)

\* C9: enable() on an enabled instrumentation and disable() on a disabled one
\* change neither the flag nor any prototype slot; after any enable() of a
\* loaded module every method is wrapped exactly once (one span per call),
\* after any disable() none is.
C9_EnableDisableIdempotent ==
    /\ (last.op = "enable" /\ last.wasEnabled)
           => (enabled /\ proto = last.protoBefore)
    /\ (last.op = "disable" /\ ~last.wasEnabled)
           => (~enabled /\ proto = last.protoBefore)
    /\ (last.op = "enable" /\ loaded)
           => \A m \in Methods : WrapDepth(proto[m]) = 1
    /\ (last.op = "disable" /\ loaded)
           => \A m \in Methods : WrapDepth(proto[m]) = 0

\* enable() has just been called on an enabled instrumentation of a loaded
\* module.
C9_Witness ==
    /\ last.op = "enable"
    /\ last.wasEnabled
    /\ loaded
    /\ \A m \in Methods : WrapDepth(proto[m]) = 1

\* C10: whenever the instrumentation of a loaded module is disabled, after
\* any number of enable / disable cycles, every prototype slot holds the
\* native implementation that was there before the first enable.
C10_UnwrapRestoresOriginal ==
    (loaded /\ ~enabled) => \A m \in Methods : proto[m] = Native(m)

\* disable() has just unpatched a patched module.
C10_Witness ==
    /\ last.op = "disable"
    /\ last.wasEnabled
    /\ loaded
    /\ \A m \in Methods : WrapDepth(last.protoBefore[m]) = 1
    /\ \A m \in Methods : proto[m] = Native(m)

\* C11: after any sequence of enable(), disable() and loads of node:sqlite,
\* repeated loads included, every method on the prototype, and every
\* implementation a call in progress was dispatched to, is the native method
\* under at most one wrapper.
C11_NeverWrappedTwice ==
    /\ \A m \in Methods : WrapDepth(proto[m]) <= 1
    /\ \A d \in DOMAIN stack : WrapDepth(stack[d].fn) <= 1

\* node:sqlite has just been loaded again while the instrumentation is enabled.
C11_Witness ==
    /\ last.op = "reload"
    /\ enabled
    /\ \A m \in Methods : WrapDepth(proto[m]) = 1

\* C12: every span is started on the tracer that is current when the wrapped
\* method is called, also when the wrappers were installed under another
\* tracer: no span of a call in progress or of the completed call belongs to
\* a tracer other than the one current at its call.
C12_SpanOnCurrentTracer ==
    /\ \A d \in DOMAIN stack :
           /\ stack[d].tracerAtCall = tracer
           /\ AllSpans(stack[d], LAMBDA s : s.tracer = stack[d].tracerAtCall)
    /\ last.done =>
           /\ last.tracerAtCall = tracer
           /\ AllSpans(last, LAMBDA s : s.tracer = last.tracerAtCall)

\* The wrappers were installed under tracerA, the tracer was then replaced by
\* tracerB, and a wrapped exec call has completed.
C12_Witness ==
    /\ LastWrapped /\ last.origCalled
    /\ last.m = "exec"
    /\ installTracer = "tracerA"
    /\ tracer = "tracerB"
    /\ Len(last.spans) = 1
    /\ last.spans[1].tracer = "tracerB"

\* C13: the caller of a wrapped method always observes the outcome of the
\* original operation (its return value or the value it threw), also when
\* starting the span, setting its status or ending it fails.
C13_OutcomeNeverMasked ==
    (last.done /\ last.origCalled) => last.obs = last.orig

\* C14: a completed wrapped call whose original ran (setStatus not throwing)
\* has called setStatus on its span exactly once and the status is set exactly
\* once: to OK when the original returned, to ERROR when it threw.
C14_StatusSetExactlyOnce ==
    (LastWrapped /\ last.origCalled /\ last.fault # "setStatus")
        => AllSpans(last, LAMBDA s :
               /\ s.statusCalls = 1
               /\ s.statusSet = 1
               /\ s.status.code = IF last.orig.kind = "return"
                                  THEN SpanStatusCode_OK
                                  ELSE SpanStatusCode_ERROR)

C14_Witness ==
    /\ LastWrapped /\ last.origCalled
    /\ last.fault = "end"
    /\ last.orig.kind = "throw"
    /\ Len(last.spans) = 1
    /\ last.spans[1].statusCalls = 1
    /\ last.spans[1].status.code = SpanStatusCode_ERROR

\* C15: a call of method m whose wrappers started their spans invokes the
\* native implementation of that same m, with the caller's receiver and the
\* caller's arguments in the same order and number; all, get and run each
\* reach their own original.
C15_OriginalInvokedAsCalled ==
    /\ \A d \in DOMAIN stack :
           stack[d].applied =
               Apply(Native(stack[d].m), stack[d].self, stack[d].params)
    /\ (last.done /\ last.origCalled)
           => last.applied = Apply(Native(last.m), last.self, last.params)

C15_Witness ==
    /\ LastWrapped /\ last.origCalled
    /\ last.m = "get"
    /\ last.applied.fn = Native("get")
    /\ last.applied.this = StatementSync("INSERT INTO test")
    /\ last.applied.args = <<"{}">>

\* C16: within one wrapped call the span is started before the original is
\* invoked, nothing is done to the span while the original runs, the status is
\* set only after the original has finished, and the span is ended after the
\* status is set and before control is back with the caller.
C16_EventOrder ==
    /\ \A d \in DOMAIN stack :
           AllSpans(stack[d], LAMBDA s : s.log = <<"startSpan">>)
    /\ (last.done /\ last.origCalled)
           => AllSpans(last, LAMBDA s :
                  /\ Len(s.log) >= 3
                  /\ s.log[1] = "startSpan"
                  /\ s.log[Len(s.log)] = "end"
                  /\ \A i \in 2 .. (Len(s.log) - 1) : s.log[i] = "setStatus")

C16_Witness ==
    /\ LastWrapped /\ LastClean
    /\ Len(last.spans) = 1
    /\ last.spans[1].log = <<"startSpan", "setStatus", "end">>

\* C17: when wrapped calls nest, each call has its own spans, one per wrapper
\* it went through; when an inner call completes, its spans are ended while
\* the spans of the calls that enclose it are still open with no status set,
\* whatever the inner outcome; and once the outermost call has exited, as many
\* spans have been ended as were started.
C17_NestedSpansIndependent ==
    /\ \A d \in DOMAIN stack :
          /\ Len(stack[d].spans) = WrapDepth(stack[d].fn)
          /\ AllSpans(stack[d], LAMBDA s :
                 /\ s.ended = 0
                 /\ s.statusCalls = 0
                 /\ s.status = [code |-> SpanStatusCode_UNSET])
    /\ (last.done /\ last.origCalled)
          => /\ Len(last.spans) = WrapDepth(last.fn)
             /\ AllSpans(last, LAMBDA s : s.ended = 1)
    /\ (stack = <<>>) => (openSpans = 0)

C17_Witness ==
    /\ Len(stack) = 1
    /\ Len(stack[1].spans) = 1
    /\ stack[1].spans[1].ended = 0
    /\ stack[1].spans[1].status = [code |-> SpanStatusCode_UNSET]
    /\ LastWrapped /\ last.origCalled
    /\ last.depth = 2
    /\ last.orig.kind = "throw"
    /\ Len(last.spans) = 1
    /\ last.spans[1].ended = 1
    /\ last.spans[1].status.code = SpanStatusCode_ERROR
    /\ openSpans = 1

\* C18: when the original throws a value without a message property, null
\* included, the wrapper raises nothing of its own while setting the status:
\* the span gets status ERROR with an undefined message, it is ended, and the
\* caller gets the very value the original threw.
C18_ThrownValueWithoutMessage ==
    (/\ LastWrapped /\ LastClean
     /\ last.orig.kind = "throw"
     /\ last.orig.val.id \in {"NoMessage", "null"})
        => /\ last.obs = last.orig
           /\ AllSpans(last, LAMBDA s :
                  /\ s.status = [code |-> SpanStatusCode_ERROR, message |-> Undefined]
                  /\ s.statusCalls = 1
                  /\ s.ended = 1)

C18_Witness ==
    /\ LastWrapped /\ LastClean
    /\ last.orig = Throw([id |-> "null", message |-> Undefined])
    /\ last.obs = last.orig
    /\ Len(last.spans) = 1
    /\ last.spans[1].status = [code |-> SpanStatusCode_ERROR, message |-> Undefined]
    /\ last.spans[1].ended = 1

\* C19: a call of exec, prepare, all, get or run, whether it starts, returns
\* or throws, leaves the patch state as it was: which implementation sits on
\* each method (and so the original each wrapper remembers), the enabled flag
\* and the loaded flag; the implementations change only in an enable, a
\* disable or a module load.
C19_CallsKeepPatchState ==
    [][ /\ (last'.op \in {"call", "return"})
            => /\ proto' = proto
               /\ enabled' = enabled
               /\ loaded' = loaded
               /\ installTracer' = installTracer
        /\ (proto' # proto) => (last'.op \in {"enable", "disable", "load"})
      ]_vars

C19_Witness ==
    /\ LastWrapped /\ last.origCalled
    /\ last.orig.kind = "throw"
    /\ last.m = "run"
    /\ last.depth = 1
    /\ enabled /\ loaded
    /\ \A m \in Methods : WrapDepth(proto[m]) = 1
    /\ proto["run"] = last.fn

\* C20: when disable() runs while a wrapped call is in progress, the call
\* still completes its span: the span is ended exactly once, and (the span
\* operations not throwing) it gets exactly one status, OK if the original
\* returned and ERROR if it threw, and the caller gets the original's result
\* or error.
C20_DisableDuringCall ==
    (/\ LastWrapped /\ last.origCalled
     /\ last.enabledAtCall /\ ~enabled)
        => /\ Len(last.spans) = WrapDepth(last.fn)
           /\ AllSpans(last, LAMBDA s : s.ended = 1)
           /\ (last.fault = "none")
                 => /\ last.obs = last.orig
                    /\ AllSpans(last, LAMBDA s :
                           /\ s.statusCalls = 1
                           /\ s.statusSet = 1
                           /\ s.status.code = IF last.orig.kind = "return"
                                              THEN SpanStatusCode_OK
                                              ELSE SpanStatusCode_ERROR)

C20_Witness ==
    /\ LastWrapped /\ LastClean
    /\ last.enabledAtCall /\ ~enabled
    /\ \A m \in Methods : proto[m] = Native(m)
    /\ last.m = "prepare"
    /\ last.orig.kind = "return"
    /\ last.obs = last.orig
    /\ Len(last.spans) = 1
    /\ last.spans[1].ended = 1
    /\ last.spans[1].status = [code |-> SpanStatusCode_OK]

====
